---- MODULE Spec2Model ----
(***************************************************************************)
(* Resident registry of the barangay system: the Express handlers of the   *)
(* server (POST/GET/PUT/DELETE /residents, the statistics endpoints) over  *)
(* the Redis store: one hash resident:<id> per resident, the set           *)
(* 'residents' of ids and the shared hash 'stats' of counters.  Every      *)
(* await of a store call is one step of a handler; handlers of different   *)
(* requests interleave between their store calls.  The uploaded profile    *)
(* image (req.file, fs.unlinkSync) lives outside the store and is left out.*)
(***************************************************************************)
EXTENDS Integers, Sequences, FiniteSets, TLC

\* ---------------------------------------------------------------- bounds
MaxIds == 2          \* resident ids the server hands out or is asked about
NumSlots == 2        \* request handlers that can be in flight together
MaxRequests == 3     \* requests received in one behaviour
MaxFailures == 1     \* store calls that fail in one behaviour
MaxSeeded == 1       \* residents already stored when the server starts
MaxListRequests == 2 \* requests received in a behaviour of SpecList
MaxPairSeeded == 2   \* residents stored at the start of SpecPairs

Ids == 1..MaxIds
Slots == 1..NumSlots

\* ------------------------------------------------------------ JS values
\* the value of a property that an object does not have
Undefined == "#undefined"

\* an object / a Redis hash without fields
Empty == [f \in {} |-> ""]

\* obj[f] of a JS object
Prop(obj, f) == IF f \in DOMAIN obj THEN obj[f] ELSE Undefined

\* truthiness of a string-or-undefined value
Truthy(v) == v # Undefined /\ v # ""

\* String.prototype.toLowerCase on the values that occur
ToLowerCase(s) ==
  CASE s = "Registered" -> "registered"
    [] s = "REGISTERED" -> "registered"
    [] s = "Not-Registered" -> "not-registered"
    [] s = "Male" -> "male"
    [] s = "Female" -> "female"
    [] s = "Yes" -> "yes"
    [] s = "No" -> "no"
    [] s = "A" -> "a"
    [] s = "B" -> "b"
    [] OTHER -> s

\* v?.toLowerCase()
OptLower(v) == IF v = Undefined THEN Undefined ELSE ToLowerCase(v)

\* `${v}` in a template literal
ToStr(v) == IF v = Undefined THEN "undefined" ELSE v

\* Object.entries(obj) as the sequence of its keys, in the order the
\* request carries them
FieldOrder == <<"firstName", "gender", "purok", "votersStatus">>
Entries(obj) == SelectSeq(FieldOrder, LAMBDA f : f \in DOMAIN obj)

\* --------------------------------------------------------- store calls
\* a write that replaces the hash by the one field
HSetReplaces(h, field, value) == [f \in {field} |-> value]

\* client.hSet(key, field, value) on the hash h stored at key
HSet(h, field, value) ==
  [f \in DOMAIN h \cup {field} |-> IF f = field THEN value ELSE h[f]]

\* a counter update that stores the delta instead of adding it
HIncrByOverwrites(row, field, delta) ==
  [f \in DOMAIN row \cup {field} |-> IF f = field THEN delta ELSE row[f]]

\* client.hIncrBy('stats', field, delta): a missing field counts from 0
HIncrBy(row, field, delta) ==
  [f \in DOMAIN row \cup {field} |->
     IF f = field THEN (IF field \in DOMAIN row THEN row[field] ELSE 0) + delta
     ELSE row[f]]

\* the counter a reader of the 'stats' row sees (0 when never written)
Counter(row, field) == IF field \in DOMAIN row THEN row[field] ELSE 0

\* the field of 'stats' that counts the residents of one purok
PurokField(purok) == "residents:" \o ToStr(purok)

\* ------------------------------------------------------- request inputs
\* bodies of POST /residents
Bodies ==
  { Empty,
    [firstName |-> "Juan", purok |-> "A", votersStatus |-> "registered"],
    [purok |-> "B", votersStatus |-> "Registered"],
    [gender |-> "Male", votersStatus |-> "not-registered"] }

\* bodies the residents stored at start were created with
SeedBodies ==
  { [firstName |-> "Juan", purok |-> "A", votersStatus |-> "registered"],
    [gender |-> "Male", votersStatus |-> "not-registered"] }

\* bodies of PUT /residents/:id
Updates ==
  { [firstName |-> "Ana"],
    [purok |-> "B"],
    [votersStatus |-> "registered"],
    [votersStatus |-> "not-registered"] }

VARIABLES
  members,    \* the Redis set 'residents'
  hash,       \* hash[i]: the Redis hash resident:<i> (Empty: no such key)
  stats,      \* the Redis hash 'stats'
  nextId,     \* the next fresh id uuidv4() returns
  req,        \* req[r]: the handler running in slot r
  last,       \* the response the step just taken has sent, if any
  started,    \* number of requests received
  failed,     \* number of store calls that failed
  deletedOk,  \* ids for which a DELETE has answered 200
  stable,     \* stable[r]: ids in the set with a non-empty hash ever since
              \* the GET /residents of slot r was received
  total0,     \* stats.totalResidents when the server started
  updated,    \* <<id, body>> of every PUT /residents/:id that answered 200
  journal     \* where a journal is kept: the store at start and the
              \* requests received

store == <<members, hash, stats, nextId>>
vars == <<members, hash, stats, nextId, req, last, started, failed,
          deletedOk, stable, total0, updated, journal>>

Idle ==
  [op |-> "idle", pc |-> "-", id |-> 0, body |-> Empty, pending |-> <<>>,
   snap |-> Empty, ids |-> {}, enum |-> {}, out |-> {}, rejected |-> FALSE,
   flag |-> FALSE, delta |-> Empty]

NoResponse == [op |-> "none", id |-> 0, status |-> 0, data |-> Empty,
               body |-> Empty, snap |-> Empty, flag |-> FALSE, stable |-> {},
               enum |-> {}, delta |-> Empty, pc |-> "-"]

InFlight == {r \in Slots : req[r].op # "idle"}
Quiescent == InFlight = {}

\* ids that are members of the set and have a hash with at least one field
LiveIds(m, h) == {i \in Ids : i \in m /\ DOMAIN h[i] # {}}

\* ------------------------------------------------- create, run to the end
\* a voter test that compares votersStatus letter for letter
CreateAfterTotalExact(body) ==
  IF Prop(body, "votersStatus") = "registered" THEN "incrVoters"
  ELSE IF Truthy(Prop(body, "purok")) THEN "incrPurok"
  ELSE "respond"

\* the counter updates of POST /residents (lines 532-543)
CreateAfterTotal(body) ==
  IF OptLower(Prop(body, "votersStatus")) = "registered" THEN "incrVoters"
  ELSE IF Truthy(Prop(body, "purok")) THEN "incrPurok"
  ELSE "respond"

CreateAfterVoters(body) ==
  IF Truthy(Prop(body, "purok")) THEN "incrPurok" ELSE "respond"

\* the hash POST /residents leaves for a body when nothing interleaves
RECURSIVE WriteAll(_, _, _)
WriteAll(h, body, fields) ==
  IF fields = <<>> THEN h
  ELSE WriteAll(HSet(h, Head(fields), body[Head(fields)]), body, Tail(fields))

\* the 'stats' row POST /residents leaves when nothing interleaves
CreateStats(row, body) ==
  LET t == HIncrBy(row, "totalResidents", 1)
      v == IF CreateAfterTotal(body) = "incrVoters"
           THEN HIncrBy(t, "totalVoters", 1) ELSE t
  IN IF CreateAfterVoters(body) = "incrPurok"
     THEN HIncrBy(v, PurokField(Prop(body, "purok")), 1) ELSE v

\* the store after the residents 1..k were created one after another
RECURSIVE SeedStats(_, _)
SeedStats(seed, k) ==
  IF k = 0 THEN Empty ELSE CreateStats(SeedStats(seed, k - 1), seed[k])

SeedHash(seed, k) ==
  [i \in Ids |-> IF i <= k THEN WriteAll(Empty, seed[i], Entries(seed[i]))
                 ELSE Empty]

\* the three keys of the store as one value
Store(m, h, s) == [members |-> m, hash |-> h, stats |-> s]

\* the server starts on a store that holds up to `most` residents,
\* created earlier, one after another, with bodies of the given set
SeededJournal(bodies, on, most) ==
  \E k \in 0..most : \E seed \in [1..k -> bodies] :
    /\ k <= MaxIds
    /\ members = 1..k
    /\ hash = SeedHash(seed, k)
    /\ stats = SeedStats(seed, k)
    /\ nextId = k + 1
    /\ req = [r \in Slots |-> Idle]
    /\ last = NoResponse
    /\ started = 0
    /\ failed = 0
    /\ deletedOk = {}
    /\ stable = [r \in Slots |-> {}]
    /\ total0 = Counter(SeedStats(seed, k), "totalResidents")
    /\ updated = {}
    /\ journal = [on |-> on, reqs |-> {},
                  start |-> IF on THEN Store(1..k, SeedHash(seed, k),
                                             SeedStats(seed, k))
                            ELSE Store({}, SeedHash(seed, 0), Empty)]

\* the same with up to MaxSeeded residents, and no journal is kept
Seeded(bodies) == SeededJournal(bodies, FALSE, MaxSeeded)

Init == Seeded(SeedBodies)

\* ------------------------------------------------------ handler plumbing
\* the counters the handler's own steps have changed so far, with the net
\* change of each: d is the record of the earlier steps
StepDelta(d) ==
  LET touched == {f \in DOMAIN stats' : Counter(stats', f) # Counter(stats, f)}
  IN [f \in DOMAIN d \cup touched |->
        Counter(d, f) + Counter(stats', f) - Counter(stats, f)]

\* ids continuously live since each GET /residents in flight was received
Track ==
  stable' = [r \in Slots |->
               IF req'[r].op = "list"
               THEN (IF req[r].op = "list" THEN stable[r] ELSE Ids)
                      \cap LiveIds(members', hash')
               ELSE {}]

\* the handler of slot r goes on to its next store call
Continue(r, rec) ==
  /\ req' = [req EXCEPT ![r] = [rec EXCEPT !.delta = StepDelta(@)]]
  /\ last' = NoResponse
  /\ UNCHANGED <<deletedOk, started, total0, updated, journal>>
  /\ Track

\* res.status(status).json(data): the handler of slot r is finished
Respond(r, status, data) ==
  /\ req' = [req EXCEPT ![r] = Idle]
  /\ last' = [op |-> req[r].op, id |-> req[r].id, status |-> status,
              data |-> data, body |-> req[r].body, snap |-> req[r].snap,
              flag |-> req[r].flag,
              stable |-> IF req[r].op = "list"
                         THEN stable[r] \cap LiveIds(members', hash') ELSE {},
              enum |-> req[r].enum, delta |-> StepDelta(req[r].delta),
              pc |-> req[r].pc]
  /\ deletedOk' = IF req[r].op = "delete" /\ status = 200
                  THEN deletedOk \cup {req[r].id} ELSE deletedOk
  /\ updated' = IF req[r].op = "update" /\ status = 200
                THEN updated \cup {<<req[r].id, req[r].body>>} ELSE updated
  /\ UNCHANGED <<started, total0, journal>>
  /\ Track

At(r, op, pc) == req[r].op = op /\ req[r].pc = pc

\* the first store call of each handler
FirstCall(op) ==
  CASE op = "create" -> "sAdd"
    [] op = "get" -> "hGetAll"
    [] op = "list" -> "sMembers"
    [] op = "update" -> "sIsMember"
    [] op = "delete" -> "hGetAll"
    [] op = "stats" -> "hGetAll"
    [] op = "analyticsStats" -> "keys"
    [] op = "analyticsResidents" -> "sCard"

\* Express dispatches a request to its handler; at most lim run together
Receive(r, op, id, body, lim, max) ==
  /\ started < max
  /\ Cardinality(InFlight) < lim
  /\ req[r].op = "idle" /\ \A q \in Slots : q < r => req[q].op # "idle"
  /\ op = "create" => nextId <= MaxIds
  /\ req' = [req EXCEPT ![r] =
        [Idle EXCEPT !.op = op, !.pc = FirstCall(op),
                     !.id = IF op = "create" THEN nextId ELSE id,
                     !.body = body, !.flag = id \in deletedOk]]
  /\ nextId' = IF op = "create" THEN nextId + 1 ELSE nextId
  /\ started' = started + 1
  /\ last' = NoResponse
  /\ journal' = IF journal.on
                THEN [journal EXCEPT !.reqs =
                        @ \cup {[op |-> op, body |-> body,
                                 id |-> IF op = "create" THEN nextId ELSE id]}]
                ELSE journal
  /\ UNCHANGED <<members, hash, stats, failed, deletedOk, total0, updated>>
  /\ Track

\* -------------------------------------------------------- POST /residents
\* await client.sAdd('residents', id)
CreateSAdd(r) ==
  /\ At(r, "create", "sAdd")
  /\ members' = members \cup {req[r].id}
  /\ UNCHANGED <<hash, stats, nextId, failed>>
  /\ LET fields == Entries(req[r].body) IN
       Continue(r, [req[r] EXCEPT !.pending = fields,
                      !.pc = IF fields = <<>> THEN "incrTotal" ELSE "hSet"])

\* one client.hSet(`resident:${id}`, key, value) of the Promise.all
CreateHSet(r) ==
  /\ At(r, "create", "hSet")
  /\ LET f == Head(req[r].pending) IN
       hash' = [hash EXCEPT ![req[r].id] = HSet(@, f, req[r].body[f])]
  /\ UNCHANGED <<members, stats, nextId, failed>>
  /\ IF Tail(req[r].pending) # <<>>
     THEN Continue(r, [req[r] EXCEPT !.pending = Tail(@)])
     ELSE IF req[r].rejected
     THEN Respond(r, 500, Empty)
     ELSE Continue(r, [req[r] EXCEPT !.pending = <<>>, !.pc = "incrTotal"])

\* await client.hIncrBy('stats', 'totalResidents', 1)
CreateIncrTotal(r) ==
  /\ At(r, "create", "incrTotal")
  /\ stats' = HIncrBy(stats, "totalResidents", 1)
  /\ UNCHANGED <<members, hash, nextId, failed>>
  /\ IF CreateAfterTotal(req[r].body) = "respond"
     THEN Respond(r, 201, req[r].body)
     ELSE Continue(r, [req[r] EXCEPT !.pc = CreateAfterTotal(req[r].body)])

\* await client.hIncrBy('stats', 'totalVoters', 1)
CreateIncrVoters(r) ==
  /\ At(r, "create", "incrVoters")
  /\ stats' = HIncrBy(stats, "totalVoters", 1)
  /\ UNCHANGED <<members, hash, nextId, failed>>
  /\ IF CreateAfterVoters(req[r].body) = "respond"
     THEN Respond(r, 201, req[r].body)
     ELSE Continue(r, [req[r] EXCEPT !.pc = CreateAfterVoters(req[r].body)])

\* await client.hIncrBy('stats', `residents:${residentData.purok}`, 1)
CreateIncrPurok(r) ==
  /\ At(r, "create", "incrPurok")
  /\ stats' = HIncrBy(stats, PurokField(Prop(req[r].body, "purok")), 1)
  /\ UNCHANGED <<members, hash, nextId, failed>>
  /\ Respond(r, 201, req[r].body)

\* --------------------------------------------------------- GET /residents
\* a test that keeps only the hashes that have a firstName
ListKeepsNamed(resident) == "firstName" \in DOMAIN resident

\* the test that keeps a hash read by GET /residents in the answer
ListKeeps(resident) == DOMAIN resident # {}

\* const residentIds = await client.sMembers('residents')
ListSMembers(r) ==
  /\ At(r, "list", "sMembers")
  /\ UNCHANGED <<members, hash, stats, nextId, failed>>
  /\ IF members = {}
     THEN Respond(r, 200, {})
     ELSE Continue(r, [req[r] EXCEPT !.ids = members, !.enum = members,
                                     !.pc = "hGetAll"])

\* const resident = await client.hGetAll(`resident:${id}`) of the loop
ListHGetAll(r, i) ==
  /\ At(r, "list", "hGetAll")
  /\ i \in req[r].ids
  /\ UNCHANGED <<members, hash, stats, nextId, failed>>
  /\ LET out == IF ListKeeps(hash[i]) THEN req[r].out \cup {<<i, hash[i]>>}
                ELSE req[r].out
     IN IF req[r].ids = {i}
        THEN Respond(r, 200, out)
        ELSE Continue(r, [req[r] EXCEPT !.ids = @ \ {i}, !.out = out])

\* ----------------------------------------------------- GET /residents/:id
GetHGetAll(r) ==
  /\ At(r, "get", "hGetAll")
  /\ UNCHANGED <<members, hash, stats, nextId, failed>>
  /\ IF DOMAIN hash[req[r].id] = {}
     THEN Respond(r, 404, Empty)
     ELSE Respond(r, 200, hash[req[r].id])

\* ----------------------------------------------------- PUT /residents/:id
\* lines 633-646: what the handler does to totalVoters, from the request
\* body and the hash it read; "throw" is the TypeError of
\* currentData.votersStatus.toLowerCase() on a missing field
VoterChange(updates, currentData) ==
  LET u == Prop(updates, "votersStatus")
      c == Prop(currentData, "votersStatus")
  IN IF Truthy(u) /\ u # c
     THEN IF c = Undefined THEN "throw"
          ELSE IF ToLowerCase(u) = "registered" /\ ToLowerCase(c) # "registered"
          THEN "incr"
          ELSE IF ToLowerCase(u) # "registered" /\ ToLowerCase(c) = "registered"
          THEN "decr"
          ELSE "none"
     ELSE "none"

\* field writes that stop after the first entry of the body
UpdateWritesFirst(rec) ==
  LET fields == Entries(rec.body) IN
    [rec EXCEPT !.pending = IF fields = <<>> THEN <<>> ELSE <<Head(fields)>>,
                !.pc = IF fields = <<>> THEN "hGetAll2" ELSE "hSet"]

\* the store call that follows the voter bookkeeping: the field writes, or
\* the final read when the body has no entries
UpdateWrites(rec) ==
  LET fields == Entries(rec.body) IN
    [rec EXCEPT !.pending = fields,
                !.pc = IF fields = <<>> THEN "hGetAll2" ELSE "hSet"]

\* a handler that goes on whatever sIsMember answers
UpdateSIsMemberIgnored(r) ==
  /\ At(r, "update", "sIsMember")
  /\ UNCHANGED <<members, hash, stats, nextId, failed>>
  /\ Continue(r, [req[r] EXCEPT !.pc = "hGetAll"])

\* const exists = await client.sIsMember('residents', id)
UpdateSIsMember(r) ==
  /\ At(r, "update", "sIsMember")
  /\ UNCHANGED <<members, hash, stats, nextId, failed>>
  /\ IF req[r].id \notin members
     THEN Respond(r, 404, Empty)
     ELSE Continue(r, [req[r] EXCEPT !.pc = "hGetAll"])

\* const currentData = await client.hGetAll(`resident:${id}`)
UpdateHGetAll(r) ==
  /\ At(r, "update", "hGetAll")
  /\ UNCHANGED <<members, hash, stats, nextId, failed>>
  /\ LET currentData == hash[req[r].id]
         change == VoterChange(req[r].body, currentData)
         rec == [req[r] EXCEPT !.snap = currentData]
     IN CASE change = "throw" -> Respond(r, 500, Empty)
          [] change = "none" -> Continue(r, UpdateWrites(rec))
          [] OTHER -> Continue(r, [rec EXCEPT !.pc = "incrVoters"])

\* await client.hIncrBy('stats', 'totalVoters', +1 or -1)
UpdateIncrVoters(r) ==
  /\ At(r, "update", "incrVoters")
  /\ stats' = HIncrBy(stats, "totalVoters",
                IF VoterChange(req[r].body, req[r].snap) = "incr" THEN 1 ELSE -1)
  /\ UNCHANGED <<members, hash, nextId, failed>>
  /\ Continue(r, UpdateWrites(req[r]))

\* one client.hSet(`resident:${id}`, key, value) of the Promise.all
UpdateHSet(r) ==
  /\ At(r, "update", "hSet")
  /\ LET f == Head(req[r].pending) IN
       hash' = [hash EXCEPT ![req[r].id] = HSet(@, f, req[r].body[f])]
  /\ UNCHANGED <<members, stats, nextId, failed>>
  /\ IF Tail(req[r].pending) # <<>>
     THEN Continue(r, [req[r] EXCEPT !.pending = Tail(@)])
     ELSE IF req[r].rejected
     THEN Respond(r, 500, Empty)
     ELSE Continue(r, [req[r] EXCEPT !.pending = <<>>, !.pc = "hGetAll2"])

\* const updatedData = await client.hGetAll(`resident:${id}`)
UpdateHGetAll2(r) ==
  /\ At(r, "update", "hGetAll2")
  /\ UNCHANGED <<members, hash, stats, nextId, failed>>
  /\ Respond(r, 200, hash[req[r].id])

\* -------------------------------------------------- DELETE /residents/:id
\* line 701: the test that guards the decrement of totalVoters
DeleteCountsVoter(resident) == Prop(resident, "votersStatus") = "Registered"

\* const resident = await client.hGetAll(`resident:${id}`)
DeleteHGetAll(r) ==
  /\ At(r, "delete", "hGetAll")
  /\ UNCHANGED <<members, hash, stats, nextId, failed>>
  /\ IF DOMAIN hash[req[r].id] = {}
     THEN Respond(r, 404, Empty)
     ELSE Continue(r, [req[r] EXCEPT !.snap = hash[req[r].id], !.pc = "del"])

\* await client.del(`resident:${id}`)
DeleteDel(r) ==
  /\ At(r, "delete", "del")
  /\ hash' = [hash EXCEPT ![req[r].id] = Empty]
  /\ UNCHANGED <<members, stats, nextId, failed>>
  /\ Continue(r, [req[r] EXCEPT !.pc = "sRem"])

\* await client.sRem('residents', id)
DeleteSRem(r) ==
  /\ At(r, "delete", "sRem")
  /\ members' = members \ {req[r].id}
  /\ UNCHANGED <<hash, stats, nextId, failed>>
  /\ Continue(r, [req[r] EXCEPT !.pc = "incrTotal"])

\* await client.hIncrBy('stats', 'totalResidents', -1)
DeleteIncrTotal(r) ==
  /\ At(r, "delete", "incrTotal")
  /\ stats' = HIncrBy(stats, "totalResidents", -1)
  /\ UNCHANGED <<members, hash, nextId, failed>>
  /\ Continue(r, [req[r] EXCEPT !.pc = "incrPurok"])

\* await client.hIncrBy('stats', `residents:${resident.purok}`, -1)
DeleteIncrPurok(r) ==
  /\ At(r, "delete", "incrPurok")
  /\ stats' = HIncrBy(stats, PurokField(Prop(req[r].snap, "purok")), -1)
  /\ UNCHANGED <<members, hash, nextId, failed>>
  /\ IF DeleteCountsVoter(req[r].snap)
     THEN Continue(r, [req[r] EXCEPT !.pc = "incrVoters"])
     ELSE Respond(r, 200, Empty)

\* await client.hIncrBy('stats', 'totalVoters', -1)
DeleteIncrVoters(r) ==
  /\ At(r, "delete", "incrVoters")
  /\ stats' = HIncrBy(stats, "totalVoters", -1)
  /\ UNCHANGED <<members, hash, nextId, failed>>
  /\ Respond(r, 200, Empty)

\* --------------------------------------------------- GET /residents/stats
StatsHGetAll(r) ==
  /\ At(r, "stats", "hGetAll")
  /\ UNCHANGED <<members, hash, stats, nextId, failed>>
  /\ Respond(r, 200, stats)

\* --------------------------------------------------- GET /analytics/stats
\* the initial accumulator of the reduce (lines 749-753)
StatsAcc0 ==
  [total |-> 0, male |-> 0, female |-> 0, voters |-> 0, nonVoters |-> 0,
   puroks |-> {}]

\* a reduce callback that compares votersStatus letter for letter
StatsReduceExact(acc, resident) ==
  LET gender == OptLower(Prop(resident, "gender"))
      voter == Prop(resident, "votersStatus") = "registered"
      purok == Prop(resident, "purok")
  IN [total |-> acc.total + 1,
      male |-> acc.male + (IF gender = "male" THEN 1 ELSE 0),
      female |-> acc.female + (IF gender = "female" THEN 1 ELSE 0),
      voters |-> acc.voters + (IF voter THEN 1 ELSE 0),
      nonVoters |-> acc.nonVoters + (IF voter THEN 0 ELSE 1),
      puroks |-> IF Truthy(purok) THEN acc.puroks \cup {purok} ELSE acc.puroks]

\* the callback of the reduce (lines 725-748)
StatsReduce(acc, resident) ==
  LET gender == OptLower(Prop(resident, "gender"))
      voter == OptLower(Prop(resident, "votersStatus")) = "registered"
      purok == Prop(resident, "purok")
  IN [total |-> acc.total + 1,
      male |-> acc.male + (IF gender = "male" THEN 1 ELSE 0),
      female |-> acc.female + (IF gender = "female" THEN 1 ELSE 0),
      voters |-> acc.voters + (IF voter THEN 1 ELSE 0),
      nonVoters |-> acc.nonVoters + (IF voter THEN 0 ELSE 1),
      puroks |-> IF Truthy(purok) THEN acc.puroks \cup {purok} ELSE acc.puroks]

\* an answer that takes the population total from the counters row
StatsAnswerCounters(acc) ==
  [population |-> [total |-> Counter(stats, "totalResidents"),
                   male |-> acc.male, female |-> acc.female],
   voters |-> [voters |-> acc.voters, nonVoters |-> acc.nonVoters],
   precincts |-> Cardinality(acc.puroks)]

\* the body of the answer (lines 755-759)
StatsAnswer(acc) ==
  [population |-> [total |-> acc.total, male |-> acc.male, female |-> acc.female],
   voters |-> [voters |-> acc.voters, nonVoters |-> acc.nonVoters],
   precincts |-> Cardinality(acc.puroks)]

\* const keys = await client.keys('resident:*')
AnalyticsKeys(r) ==
  /\ At(r, "analyticsStats", "keys")
  /\ UNCHANGED <<members, hash, stats, nextId, failed>>
  /\ LET keys == {i \in Ids : DOMAIN hash[i] # {}} IN
       IF keys = {}
       THEN Respond(r, 200, StatsAnswer(StatsAcc0))
       ELSE Continue(r, [req[r] EXCEPT !.ids = keys, !.enum = keys,
                                       !.out = StatsAcc0, !.pc = "hGetAll"])

\* one client.hGetAll(key) of the Promise.all; the reduce runs over the
\* hashes read
AnalyticsHGetAll(r, i) ==
  /\ At(r, "analyticsStats", "hGetAll")
  /\ i \in req[r].ids
  /\ UNCHANGED <<members, hash, stats, nextId, failed>>
  /\ LET acc == StatsReduce(req[r].out, hash[i]) IN
       IF req[r].ids = {i}
       THEN Respond(r, 200, StatsAnswer(acc))
       ELSE Continue(r, [req[r] EXCEPT !.ids = @ \ {i}, !.out = acc])

\* ----------------------------------------------- GET /analytics/residents
\* (v || '').toLowerCase()
OrEmptyLower(v) == ToLowerCase(IF Truthy(v) THEN v ELSE "")

\* the body of the loop (lines 783-795): the counts after one more resident
DashCount(acc, resident) ==
  LET gender == OrEmptyLower(Prop(resident, "gender"))
      voterStatus == OrEmptyLower(Prop(resident, "votersStatus"))
  IN [acc EXCEPT
        !.maleCount = @ + (IF gender = "male" THEN 1 ELSE 0),
        !.femaleCount = @ + (IF gender = "female" THEN 1 ELSE 0),
        !.votersCount = @ + (IF voterStatus = "registered" THEN 1 ELSE 0),
        !.nonVotersCount = @ + (IF voterStatus = "not-registered" THEN 1 ELSE 0)]

\* const totalResidents = await client.sCard('residents')
DashSCard(r) ==
  /\ At(r, "analyticsResidents", "sCard")
  /\ UNCHANGED <<members, hash, stats, nextId, failed>>
  /\ Continue(r, [req[r] EXCEPT !.pc = "sMembers",
        !.out = [totalResidents |-> Cardinality(members), maleCount |-> 0,
                 femaleCount |-> 0, votersCount |-> 0, nonVotersCount |-> 0]])

\* const allResidents = await client.sMembers('residents')
DashSMembers(r) ==
  /\ At(r, "analyticsResidents", "sMembers")
  /\ UNCHANGED <<members, hash, stats, nextId, failed>>
  /\ IF members = {}
     THEN Respond(r, 200, req[r].out)
     ELSE Continue(r, [req[r] EXCEPT !.ids = members, !.enum = members,
                                     !.pc = "hGetAll"])

\* const resident = await client.hGetAll(`resident:${residentId}`) of the loop
DashHGetAll(r, i) ==
  /\ At(r, "analyticsResidents", "hGetAll")
  /\ i \in req[r].ids
  /\ UNCHANGED <<members, hash, stats, nextId, failed>>
  /\ LET acc == DashCount(req[r].out, hash[i]) IN
       IF req[r].ids = {i}
       THEN Respond(r, 200, acc)
       ELSE Continue(r, [req[r] EXCEPT !.ids = @ \ {i}, !.out = acc])

\* ------------------------------------------------------ store failures
\* the store call the handler of slot r awaits is rejected: the catch block
\* answers 500; the other writes of a Promise.all are already on their way
StoreFail(r) ==
  /\ req[r].op # "idle"
  /\ failed < MaxFailures
  /\ failed' = failed + 1
  /\ UNCHANGED <<members, hash, stats, nextId>>
  /\ IF req[r].pc = "hSet" /\ Tail(req[r].pending) # <<>>
     THEN Continue(r, [req[r] EXCEPT !.pending = Tail(@), !.rejected = TRUE])
     ELSE Respond(r, 500, Empty)

\* ------------------------------------------------------- specifications
CreateStep(r) ==
  \/ CreateSAdd(r) \/ CreateHSet(r) \/ CreateIncrTotal(r)
  \/ CreateIncrVoters(r) \/ CreateIncrPurok(r)

UpdateStep(r) ==
  \/ UpdateSIsMember(r) \/ UpdateHGetAll(r) \/ UpdateIncrVoters(r)
  \/ UpdateHSet(r) \/ UpdateHGetAll2(r)

DeleteStep(r) ==
  \/ DeleteHGetAll(r) \/ DeleteDel(r) \/ DeleteSRem(r)
  \/ DeleteIncrTotal(r) \/ DeleteIncrPurok(r) \/ DeleteIncrVoters(r)

ListStep(r) == ListSMembers(r) \/ (\E i \in Ids : ListHGetAll(r, i))

Step(r) ==
  CreateStep(r) \/ UpdateStep(r) \/ DeleteStep(r) \/ ListStep(r) \/ GetHGetAll(r)

DashStep(r) ==
  DashSCard(r) \/ DashSMembers(r) \/ (\E i \in Ids : DashHGetAll(r, i))

ReadStep(r) ==
  \/ StatsHGetAll(r)
  \/ AnalyticsKeys(r) \/ (\E i \in Ids : AnalyticsHGetAll(r, i))
  \/ DashStep(r)

\* requests of the record repository
ReceiveAny(r, lim, max) ==
  \/ \E body \in Bodies : Receive(r, "create", 0, body, lim, max)
  \/ \E id \in Ids : Receive(r, "get", id, Empty, lim, max)
  \/ Receive(r, "list", 0, Empty, lim, max)
  \/ \E id \in Ids : \E body \in Updates : Receive(r, "update", id, body, lim, max)
  \/ \E id \in Ids : Receive(r, "delete", id, Empty, lim, max)

\* requests of the statistics reader
ReceiveRead(r, lim, max) ==
  \/ Receive(r, "stats", 0, Empty, lim, max)
  \/ Receive(r, "analyticsStats", 0, Empty, lim, max)
  \/ Receive(r, "analyticsResidents", 0, Empty, lim, max)

\* concurrent handlers, store calls may fail
Next == \E r \in Slots : ReceiveAny(r, NumSlots, MaxRequests) \/ Step(r) \/ StoreFail(r)

Spec == Init /\ [][Next]_vars

\* one request after the other, no store call fails
NextSeq ==
  \E r \in Slots :
    \/ ReceiveAny(r, 1, MaxRequests) \/ ReceiveRead(r, 1, MaxRequests)
    \/ Step(r) \/ ReadStep(r)

SpecSeq == Init /\ [][NextSeq]_vars

\* creates and deletes one after the other, and the statistics readers
NextCD ==
  \E r \in Slots :
    \/ \E body \in Bodies : Receive(r, "create", 0, body, 1, MaxRequests)
    \/ \E id \in Ids : Receive(r, "delete", id, Empty, 1, MaxRequests)
    \/ ReceiveRead(r, 1, MaxRequests)
    \/ CreateStep(r) \/ DeleteStep(r) \/ ReadStep(r)

SpecCD == Init /\ [][NextCD]_vars

\* the ids uuidv4() has handed out so far
HandedOut == 1..(nextId - 1)

\* the bodies of the requests that run beside a GET /residents: a create
\* that writes no field, one that writes two, an update of one field
ListBodies == {Empty, [purok |-> "B", votersStatus |-> "Registered"]}
ListUpdates == {[votersStatus |-> "not-registered"]}

\* a GET /residents among concurrent creates, updates and deletes; store
\* calls may fail
NextList ==
  \E r \in Slots :
    \/ Receive(r, "list", 0, Empty, NumSlots, MaxListRequests)
    \/ \E body \in ListBodies :
         Receive(r, "create", 0, body, NumSlots, MaxListRequests)
    \/ \E id \in HandedOut : \E body \in ListUpdates :
         Receive(r, "update", id, body, NumSlots, MaxListRequests)
    \/ \E id \in HandedOut :
         Receive(r, "delete", id, Empty, NumSlots, MaxListRequests)
    \/ ListStep(r) \/ CreateStep(r) \/ UpdateStep(r) \/ DeleteStep(r)
    \/ StoreFail(r)

InitList == Seeded({[purok |-> "B", votersStatus |-> "Registered"]})

SpecList == InitList /\ [][NextList]_vars

\* as many creates as there are handler slots, running together
NextCreates ==
  \E r \in Slots :
    \/ \E body \in Bodies : Receive(r, "create", 0, body, NumSlots, NumSlots)
    \/ CreateStep(r)

SpecCreates == Init /\ [][NextCreates]_vars

\* ------------------------------------------------------------- C1
\* C1: an id has a non-empty hash resident:<id> exactly when it is a member
\* of the set 'residents', in every state, also between the store calls of
\* a request.
HashIffMember ==
  \A i \in Ids : (DOMAIN hash[i] # {}) <=> (i \in members)

\* ------------------------------------------------------------- C2
\* C2: when no request is in flight and no store call has failed,
\* stats.totalResidents is the cardinality of the set 'residents'.
TotalIsCardinality ==
  (Quiescent /\ failed = 0) =>
    Counter(stats, "totalResidents") = Cardinality(members)

\* ------------------------------------------------------------- C3
\* C3: after creates and deletes run one after another, the population
\* total /analytics/stats answers is the counter stats.totalResidents.
RecomputedTotalIsCounter ==
  (last.op = "analyticsStats" /\ last.status = 200) =>
    last.data.population.total = Counter(stats, "totalResidents")

\* ------------------------------------------------------------- C4
\* the residents on record whose votersStatus is 'registered' in any case
RegisteredIds ==
  {i \in members : OptLower(Prop(hash[i], "votersStatus")) = "registered"}

\* C4: when no request is in flight, stats.totalVoters is the number of
\* residents on record whose votersStatus is 'registered', case ignored.
VotersCounterIsCount ==
  Quiescent => Counter(stats, "totalVoters") = Cardinality(RegisteredIds)

\* ------------------------------------------------------------- C5
\* the purok values the requests use
Puroks == {"A", "B"}

\* C5: when no request is in flight, for every purok p the counter
\* stats['residents:'+p] is the number of residents on record with purok p.
PurokCounterIsCount ==
  Quiescent =>
    \A p \in Puroks :
      Counter(stats, PurokField(p))
        = Cardinality({i \in members : Prop(hash[i], "purok") = p})

\* ------------------------------------------------------------- C6
\* C6: a DELETE that answers 200 for a resident whose creation counted it
\* as a voter (votersStatus 'registered' in any letter case) takes exactly
\* one off totalVoters.
DeleteUncountsVoter ==
  (last.op = "delete" /\ last.status = 200
     /\ OptLower(Prop(last.snap, "votersStatus")) = "registered") =>
    Counter(last.delta, "totalVoters") = -1

\* ------------------------------------------------------------- C7
\* C7: a PUT that moves a resident from purok A to purok B takes one off
\* residents:A, adds one to residents:B and changes no other counter.
UpdateMovesPurok ==
  (last.op = "update" /\ last.status = 200
     /\ Prop(last.snap, "purok") = "A" /\ Prop(last.body, "purok") = "B") =>
    last.delta = [f \in {"residents:A", "residents:B"} |->
                    IF f = "residents:A" THEN -1 ELSE 1]

\* ------------------------------------------------------------- C8
\* C8: a GET /residents/:id received after a DELETE of the id has answered
\* 200 answers 404, whatever ran in between (a failed read answers 500).
GetAfterDeleteNotFound ==
  (last.op = "get" /\ last.flag /\ last.status # 500) => last.status = 404

\* ------------------------------------------------------------- C9
\* the ids of the records in the answer of GET /residents
ListedIds(data) == {e[1] : e \in data}

\* C9: the ids GET /residents answers were all members of 'residents' when
\* sMembers enumerated it, and every id that was a member with a non-empty
\* hash from the receipt of the request to its answer is among them.
ListSound ==
  (last.op = "list" /\ last.status = 200) =>
    /\ ListedIds(last.data) \subseteq last.enum
    /\ last.stable \subseteq ListedIds(last.data)

\* a GET /residents that answered a resident on record throughout and
\* skipped an id it had enumerated
ListSoundWitness ==
  /\ last.op = "list" /\ last.status = 200
  /\ last.stable # {}
  /\ last.enum \ ListedIds(last.data) # {}

\* ------------------------------------------------------------- C10
\* C10: creates running together, none failing: the steps of each create
\* that answers 201 add exactly 1 to totalResidents, and once all have
\* answered the counter is its initial value plus their number.
CreatesCountOnce ==
  /\ (last.op = "create" /\ last.status = 201) =>
       Counter(last.delta, "totalResidents") = 1
  /\ Quiescent => Counter(stats, "totalResidents") = total0 + started

\* a create answers 201 after its steps interleaved with those of another
\* create, still in flight, that has incremented totalResidents too
CreatesCountOnceWitness ==
  /\ last.op = "create" /\ last.status = 201
  /\ Counter(last.delta, "totalResidents") = 1
  /\ \E q \in Slots :
       /\ req[q].op = "create" /\ req[q].id < last.id
       /\ Counter(req[q].delta, "totalResidents") = 1
  /\ Counter(stats, "totalResidents") = total0 + 2

\* ------------------------------------------------------------- C11
\* the resident of the example scenario
Juan ==
  [firstName |-> "Juan", gender |-> "Male", purok |-> "1",
   votersStatus |-> "registered"]

\* bodies of POST /residents that spell votersStatus in several letter
\* cases, with and without a purok, and with an empty purok
CountBodies ==
  { Empty, Juan,
    [votersStatus |-> "REGISTERED"],
    [purok |-> "B", votersStatus |-> "Registered"],
    [purok |-> "", votersStatus |-> "not-registered"],
    [purok |-> "A"] }

\* creates one after the other, no store call fails
NextCounts ==
  \E r \in Slots :
    \/ \E body \in CountBodies : Receive(r, "create", 0, body, 1, MaxRequests)
    \/ CreateStep(r)

InitCounts == Seeded(CountBodies)

SpecCounts == InitCounts /\ [][NextCounts]_vars

\* the counters a create of body b has to add 1 to
CountedFields(b) ==
  {"totalResidents"}
    \cup (IF "votersStatus" \in DOMAIN b
             /\ ToLowerCase(b.votersStatus) = "registered"
          THEN {"totalVoters"} ELSE {})
    \cup (IF "purok" \in DOMAIN b /\ b.purok # ""
          THEN {"residents:" \o b.purok} ELSE {})

\* C11: the steps of a create that answers 201 add 1 to totalResidents, 1
\* to totalVoters iff votersStatus is 'registered' in any letter case, 1 to
\* residents:<purok> iff a non-empty purok is given, and change no other
\* counter; creating Juan on an empty store leaves the row
\* {totalResidents:1, totalVoters:1, 'residents:1':1}.
CreateDeltasExact ==
  (last.op = "create" /\ last.status = 201) =>
    /\ last.delta = [f \in CountedFields(last.body) |-> 1]
    /\ (last.body = Juan /\ total0 = 0 /\ started = 1) =>
         stats = [f \in {"totalResidents", "totalVoters", "residents:1"} |-> 1]

\* Juan has been created on an empty store
CreateDeltasExactWitness ==
  /\ last.op = "create" /\ last.status = 201
  /\ last.body = Juan /\ total0 = 0 /\ started = 1
  /\ DOMAIN stats = {"totalResidents", "totalVoters", "residents:1"}

\* ------------------------------------------------------------- C12
\* the live records (members of 'residents' with a hash) whose votersStatus
\* is 'registered' in any letter case
LiveVoters ==
  {i \in LiveIds(members, hash) :
     "votersStatus" \in DOMAIN hash[i]
       /\ ToLowerCase(hash[i].votersStatus) = "registered"}

John == [firstName |-> "John", gender |-> "Male", votersStatus |-> "Yes"]
Jane == [firstName |-> "Jane", gender |-> "Female", votersStatus |-> "No"]

\* the resident the store may hold before the test clears it
Earlier == [purok |-> "B", votersStatus |-> "Registered"]

\* deletes, creates and GET /analytics/residents, one after the other
NextDash ==
  \E r \in Slots :
    \/ \E id \in HandedOut : Receive(r, "delete", id, Empty, 1, MaxRequests)
    \/ \E body \in {John, Jane, Earlier} :
         Receive(r, "create", 0, body, 1, MaxRequests)
    \/ Receive(r, "analyticsResidents", 0, Empty, 1, MaxRequests)
    \/ DeleteStep(r) \/ CreateStep(r) \/ DashStep(r)

InitDash == Seeded({Earlier})

SpecDash == InitDash /\ [][NextDash]_vars

\* the ids of the residents stored at start (each one counted in total0)
\* and of those created since
StoredAtStart == 1..total0
CreatedSince == (total0 + 1)..(nextId - 1)

\* C13: after the residents stored at start were deleted and residents of
\* the test were created one after another, GET /analytics/residents
\* answers totalResidents = the number created, maleCount and femaleCount =
\* the numbers created with gender 'Male' and 'Female', votersCount = the
\* number created with votersStatus 'Yes', nonVotersCount = the number
\* created with votersStatus 'No'.
DashboardCounts ==
  ( /\ last.op = "analyticsResidents" /\ last.status = 200
    /\ StoredAtStart \cap members = {}
    /\ \A i \in CreatedSince : i \in members /\ hash[i] \in {John, Jane} ) =>
    last.data =
      [totalResidents |-> Cardinality(CreatedSince),
       maleCount |-> Cardinality({i \in CreatedSince : hash[i].gender = "Male"}),
       femaleCount |->
         Cardinality({i \in CreatedSince : hash[i].gender = "Female"}),
       votersCount |->
         Cardinality({i \in CreatedSince : hash[i].votersStatus = "Yes"}),
       nonVotersCount |->
         Cardinality({i \in CreatedSince : hash[i].votersStatus = "No"})]

\* ------------------------------------------------------------- C14
\* bodies of PUT /residents/:id, one of them naming two fields
FrameUpdates == Updates \cup {[firstName |-> "Ana", purok |-> "B"]}

\* creates and updates, one after the other
NextFrame ==
  \E r \in Slots :
    \/ \E body \in Bodies : Receive(r, "create", 0, body, 1, MaxRequests)
    \/ \E id \in Ids : \E body \in FrameUpdates :
         Receive(r, "update", id, body, 1, MaxRequests)
    \/ CreateStep(r) \/ UpdateStep(r)

SpecFrame == Init /\ [][NextFrame]_vars

\* the hash h without the given fields
Without(h, fields) == [f \in DOMAIN h \ fields |-> h[f]]

\* C14: no step of a PUT /residents/:id handler changes the set
\* 'residents', the hash of another resident or a field of resident:<id>
\* the body does not name; when it answers 200 every field the body names
\* holds the body's value and the others are as the handler read them.
UpdateFrame ==
  [][\A r \in Slots :
       req[r].op = "update" =>
         LET id == req[r].id
             body == req[r].body
         IN /\ members' = members
            /\ \A j \in Ids \ {id} : hash'[j] = hash[j]
            /\ Without(hash'[id], DOMAIN body) = Without(hash[id], DOMAIN body)
            /\ (last'.op = "update" /\ last'.status = 200) =>
                 /\ \A f \in DOMAIN body : Prop(hash'[id], f) = body[f]
                 /\ Without(hash'[id], DOMAIN body)
                      = Without(last'.snap, DOMAIN body)]_vars

\* a PUT naming two fields has answered 200: it overwrote a field, added
\* one, left two fields of the resident alone, beside another resident
UpdateFrameWitness ==
  /\ last.op = "update" /\ last.status = 200
  /\ last.body = [firstName |-> "Ana", purok |-> "B"]
  /\ last.snap = [firstName |-> "Juan", purok |-> "A", votersStatus |-> "registered"]
  /\ hash[last.id] = [firstName |-> "Ana", purok |-> "B", votersStatus |-> "registered"]
  /\ \E j \in Ids \ {last.id} : DOMAIN hash[j] # {}

\* ------------------------------------------------------------- C15
\* C15: with requests run one after another, a PUT /residents/:id whose id
\* is not in the set 'residents' answers 404 at its membership check, and
\* that step changes no hash, no set member and no counter.
UpdateNotFound ==
  [][\A r \in Slots :
       (At(r, "update", "sIsMember") /\ req[r].id \notin members) =>
         /\ last'.op = "update" /\ last'.id = req[r].id /\ last'.status = 404
         /\ last'.delta = Empty
         /\ <<members, hash, stats>>' = <<members, hash, stats>>]_vars

\* a PUT for a resident deleted earlier has answered 404
UpdateNotFoundWitness ==
  /\ last.op = "update" /\ last.status = 404 /\ last.pc = "sIsMember"
  /\ last.flag /\ last.id \notin members

\* ------------------------------------------------------------- C16
\* C16: GET /residents/:id answers 404 when the hash resident:<id> is empty
\* and also when the id is not a member of 'residents', even if a hash
\* for the id exists (a failed read answers 500).
GetNotFound ==
  (last.op = "get" /\ last.status # 500
     /\ (DOMAIN hash[last.id] = {} \/ last.id \notin members)) =>
    last.status = 404

\* ------------------------------------------------------------- C17
\* C17: with requests run one after another, DELETE /residents/:id answers
\* 404 only for an id that is not in the set 'residents'; for an id in the
\* set it answers 200 and leaves the id without hash and out of the set.
DeleteNotFoundOnlyAbsent ==
  (last.op = "delete") =>
    /\ last.status = 404 => last.id \notin members
    /\ last.status = 200 =>
         (last.id \notin members /\ DOMAIN hash[last.id] = {})

\* ------------------------------------------------------------- C18
\* C18: a POST /residents that answers 500 because a write of one of its
\* fields failed leaves the new id out of the set 'residents', without
\* hash fields, and has changed no counter.
FailedCreateNotCreated ==
  (last.op = "create" /\ last.status = 500 /\ last.pc = "hSet") =>
    /\ last.id \notin members
    /\ DOMAIN hash[last.id] = {}
    /\ last.delta = Empty

\* ------------------------------------------------------------- C19
\* creates and deletes running together, no store call fails
NextCDC ==
  \E r \in Slots :
    \/ \E body \in Bodies : Receive(r, "create", 0, body, NumSlots, MaxRequests)
    \/ \E id \in Ids : Receive(r, "delete", id, Empty, NumSlots, MaxRequests)
    \/ CreateStep(r) \/ DeleteStep(r)

SpecCDC == Init /\ [][NextCDC]_vars

\* C19: creates and deletes running together, none failing: a create that
\* answers 201 has added exactly 1 to totalResidents, a delete that answers
\* 200 has taken exactly 1 off, and once all have answered totalResidents
\* is the cardinality of the set 'residents'.
CountedExactlyOnce ==
  /\ (last.op = "create" /\ last.status = 201) =>
       Counter(last.delta, "totalResidents") = 1
  /\ (last.op = "delete" /\ last.status = 200) =>
       Counter(last.delta, "totalResidents") = -1
  /\ Quiescent => Counter(stats, "totalResidents") = Cardinality(members)

\* ------------------------------------------------------------- C20
\* bodies of PUT /residents/:id that name pairwise different fields
DisjointUpdates ==
  { [firstName |-> "Ana"], [purok |-> "B"],
    [votersStatus |-> "not-registered"] }

\* as many updates of stored residents as there are handler slots, running
\* together, no store call fails
NextUpdates ==
  \E r \in Slots :
    \/ \E id \in HandedOut : \E body \in DisjointUpdates :
         Receive(r, "update", id, body, NumSlots, NumSlots)
    \/ UpdateStep(r)

InitUpdates ==
  Seeded({[firstName |-> "Juan", purok |-> "A", votersStatus |-> "registered"]})

SpecUpdates == InitUpdates /\ [][NextUpdates]_vars

\* C20: updates of one resident running together: once all have answered,
\* for any two that answered 200 and named disjoint sets of fields the
\* hash resident:<id> holds the values of both.
UpdatesDoNotClobber ==
  Quiescent =>
    \A u, v \in updated :
      (u[1] = v[1] /\ DOMAIN u[2] \cap DOMAIN v[2] = {}) =>
        /\ \A f \in DOMAIN u[2] : Prop(hash[u[1]], f) = u[2][f]
        /\ \A f \in DOMAIN v[2] : Prop(hash[v[1]], f) = v[2][f]

\* two updates of one resident naming different fields have answered 200;
\* the second to answer had read the hash before the first wrote its field
UpdatesDoNotClobberWitness ==
  /\ Quiescent /\ last.op = "update" /\ last.status = 200
  /\ \E v \in updated :
       /\ v[1] = last.id /\ DOMAIN v[2] \cap DOMAIN last.body = {}
       /\ \E f \in DOMAIN v[2] :
            Prop(last.snap, f) # v[2][f] /\ Prop(hash[last.id], f) = v[2][f]
       /\ \A f \in DOMAIN last.body : Prop(hash[last.id], f) = last.body[f]

\* ------------------------------------------------------------- C21
\* POST /residents run from its first store call to its answer with no
\* other request in between
AloneCreate(s, id, body) ==
  Store(s.members \cup {id},
        [s.hash EXCEPT ![id] = WriteAll(@, body, Entries(body))],
        CreateStats(s.stats, body))

\* PUT /residents/:id run alone
AloneUpdate(s, id, body) ==
  LET change == VoterChange(body, s.hash[id]) IN
    IF id \notin s.members \/ change = "throw" THEN s
    ELSE Store(s.members,
               [s.hash EXCEPT ![id] = WriteAll(@, body, Entries(body))],
               CASE change = "incr" -> HIncrBy(s.stats, "totalVoters", 1)
                 [] change = "decr" -> HIncrBy(s.stats, "totalVoters", -1)
                 [] OTHER -> s.stats)

\* DELETE /residents/:id run alone
AloneDelete(s, id) ==
  LET resident == s.hash[id]
      t == HIncrBy(s.stats, "totalResidents", -1)
      p == HIncrBy(t, PurokField(Prop(resident, "purok")), -1)
  IN IF DOMAIN resident = {} THEN s
     ELSE Store(s.members \ {id}, [s.hash EXCEPT ![id] = Empty],
                IF DeleteCountsVoter(resident)
                THEN HIncrBy(p, "totalVoters", -1) ELSE p)

Alone(s, q) ==
  CASE q.op = "create" -> AloneCreate(s, q.id, q.body)
    [] q.op = "update" -> AloneUpdate(s, q.id, q.body)
    [] q.op = "delete" -> AloneDelete(s, q.id)

\* the stores that running the requests of the set qs one after the other
\* can end in, over all the orders
RECURSIVE Outcomes(_, _)
Outcomes(s, qs) ==
  IF qs = {} THEN {s}
  ELSE UNION {Outcomes(Alone(s, q), qs \ {q}) : q \in qs}

\* bodies of the requests of SpecPairs
PairBodies == {[firstName |-> "Juan", purok |-> "B", votersStatus |-> "registered"]}
PairUpdates == {[purok |-> "A", votersStatus |-> "not-registered"]}

\* as many creates, updates and deletes as there are handler slots, running
\* together, no store call fails; a journal is kept
NextPairs ==
  \E r \in Slots :
    \/ \E body \in PairBodies :
         Receive(r, "create", 0, body, NumSlots, NumSlots)
    \/ \E id \in Ids : \E body \in PairUpdates :
         Receive(r, "update", id, body, NumSlots, NumSlots)
    \/ \E id \in Ids : Receive(r, "delete", id, Empty, NumSlots, NumSlots)
    \/ CreateStep(r) \/ UpdateStep(r) \/ DeleteStep(r)

InitPairs ==
  SeededJournal({[purok |-> "B", votersStatus |-> "Registered"]}, TRUE,
                MaxPairSeeded)

SpecPairs == InitPairs /\ [][NextPairs]_vars

\* the requests of the journal target pairwise different residents
DifferentIds ==
  /\ Cardinality(journal.reqs) = started
  /\ \A p, q \in journal.reqs : p.id = q.id => p = q

\* C21: creates, updates and deletes of different residents running
\* together: once all have answered, the hashes, the set 'residents' and
\* the counters are what running the same requests one after the other
\* gives, in whichever order.
DifferentIdsCommute ==
  (Quiescent /\ DifferentIds) =>
    Outcomes(journal.start, journal.reqs) = {Store(members, hash, stats)}

\* an update of one stored resident and a delete of another have both
\* answered 200
DifferentIdsCommuteWitness ==
  /\ Quiescent /\ DifferentIds
  /\ \E p, q \in journal.reqs :
       /\ p.op = "update" /\ q.op = "delete" /\ q.id \in deletedOk
       /\ <<p.id, p.body>> \in updated
       /\ last.op = "delete" /\ last.snap = journal.start.hash[q.id]
       /\ hash[p.id] # journal.start.hash[p.id]

\* ------------------------------------------------------------- C22
\* C22: a create adds its id to the set 'residents' only after all its
\* hash fields are written, and a delete has taken its id out of the set
\* before it removes the hash: with requests run one after another, no
\* create that still has fields to write has its id in the set, and no
\* delete about to remove the hash has.
SetMutationOrder ==
  \A r \in Slots :
    /\ At(r, "create", "hSet") => req[r].id \notin members
    /\ At(r, "delete", "del") => req[r].id \notin members

\* ------------------------------------------------------------- C23
\* C23: with creates and deletes run one after another, the counter
\* changes of a DELETE that answers 200 are the negation of those the
\* create of the stored record made: -1 on each counter the create added 1
\* to, and no change of any other counter.
DeleteNegatesCreate ==
  (last.op = "delete" /\ last.status = 200) =>
    last.delta = [f \in CountedFields(last.snap) |-> -1]

\* ------------------------------------------------------------- C24
\* votersStatus v says registered, in any letter case
IsRegistered(v) == v # Undefined /\ ToLowerCase(v) = "registered"

\* the change of totalVoters the transition rule asks of an update
TransitionDelta(updates, stored) ==
  LET new == Prop(updates, "votersStatus")
      old == Prop(stored, "votersStatus")
  IN IF new = Undefined THEN 0
     ELSE IF IsRegistered(new) /\ ~IsRegistered(old) THEN 1
     ELSE IF ~IsRegistered(new) /\ IsRegistered(old) THEN -1
     ELSE 0

\* C24: with requests run one after another, a PUT /residents/:id of a
\* member of 'residents' changes totalVoters by +1 when the stored
\* votersStatus is not 'registered' and the new one is, by -1 when the
\* stored one is and the new one is not, and by 0 when the status is
\* omitted, unchanged or differs in letter case only.
UpdateVoterDelta ==
  (last.op = "update" /\ last.pc # "sIsMember") =>
    Counter(last.delta, "totalVoters") = TransitionDelta(last.body, last.snap)

\* ------------------------------------------------------------- C25
\* what /analytics/stats answers, written as counts over the hashes h
RecordsOnlyStats(h) ==
  LET keys == {i \in Ids : DOMAIN h[i] # {}}
      males == {i \in keys : OptLower(Prop(h[i], "gender")) = "male"}
      females == {i \in keys : OptLower(Prop(h[i], "gender")) = "female"}
      voters == {i \in keys : OptLower(Prop(h[i], "votersStatus")) = "registered"}
  IN [population |-> [total |-> Cardinality(keys), male |-> Cardinality(males),
                      female |-> Cardinality(females)],
      voters |-> [voters |-> Cardinality(voters),
                  nonVoters |-> Cardinality(keys \ voters)],
      precincts |->
        Cardinality({h[i].purok : i \in {j \in keys : Truthy(Prop(h[j], "purok"))}})]

\* what /analytics/residents answers, written as counts over the set m and
\* the hashes h
RecordsOnlyDash(m, h) ==
  [totalResidents |-> Cardinality(m),
   maleCount |->
     Cardinality({i \in m : OrEmptyLower(Prop(h[i], "gender")) = "male"}),
   femaleCount |->
     Cardinality({i \in m : OrEmptyLower(Prop(h[i], "gender")) = "female"}),
   votersCount |->
     Cardinality({i \in m : OrEmptyLower(Prop(h[i], "votersStatus")) = "registered"}),
   nonVotersCount |->
     Cardinality({i \in m :
        OrEmptyLower(Prop(h[i], "votersStatus")) = "not-registered"})]

\* C25: with requests run one after another, no step of /analytics/stats
\* or /analytics/residents changes a hash, the set 'residents' or a
\* counter, and what each answers is a function of the hashes and the set
\* alone, whatever the counters row holds.
RecomputationReadsRecordsOnly ==
  [][\A r \in Slots :
       req[r].op \in {"analyticsStats", "analyticsResidents"} =>
         /\ <<members, hash, stats>>' = <<members, hash, stats>>
         /\ (last'.op = "analyticsStats" /\ last'.status = 200) =>
              last'.data = RecordsOnlyStats(hash)
         /\ (last'.op = "analyticsResidents" /\ last'.status = 200) =>
              last'.data = RecordsOnlyDash(members, hash)]_vars

\* /analytics/stats has answered the count of the hashes while the counter
\* totalResidents holds another value
RecomputationReadsRecordsOnlyWitness ==
  /\ last.op = "analyticsStats" /\ last.status = 200
  /\ last.data.population.total # Counter(stats, "totalResidents")
  /\ last.data = RecordsOnlyStats(hash)

\* ------------------------------------------------------------- C26
\* the fields of the resident data model
ModelFields == {FieldOrder[k] : k \in 1..Len(FieldOrder)}

\* creates and GET /residents/:id, one after the other; a journal is kept
NextCreateGet ==
  \E r \in Slots :
    \/ \E body \in Bodies : Receive(r, "create", 0, body, 1, MaxRequests)
    \/ \E id \in Ids : Receive(r, "get", id, Empty, 1, MaxRequests)
    \/ CreateStep(r) \/ GetHGetAll(r)

InitCreateGet == SeededJournal(SeedBodies, TRUE, MaxSeeded)

SpecCreateGet == InitCreateGet /\ [][NextCreateGet]_vars

\* C26: a GET /residents/:id of a resident created earlier answers a
\* record in which every field the create provided has the provided value
\* and every other field of the data model is the empty string.
GetReturnsAllFields ==
  \A q \in journal.reqs :
    (q.op = "create" /\ last.op = "get" /\ last.id = q.id) =>
      /\ last.status = 200
      /\ \A f \in ModelFields :
           Prop(last.data, f) = IF f \in DOMAIN q.body THEN q.body[f] ELSE ""

\* ------------------------------------------------------------- C27
\* C27: no counter of the row 'stats' is negative, in any state.
CountersNonNegative ==
  \A f \in DOMAIN stats : stats[f] >= 0

\* ------------------------------------------------------------- C28
\* bodies of PUT /residents/:id that set votersStatus to registered
RegisterUpdates ==
  {[votersStatus |-> "registered"], [votersStatus |-> "Registered"]}

\* as many such updates of stored residents as there are handler slots,
\* running together, no store call fails
NextRegister ==
  \E r \in Slots :
    \/ \E id \in HandedOut : \E body \in RegisterUpdates :
         Receive(r, "update", id, body, NumSlots, NumSlots)
    \/ UpdateStep(r)

\* the residents stored at start are not registered: totalVoters is 0
InitRegister == Seeded({[gender |-> "Male", votersStatus |-> "not-registered"]})

SpecRegister == InitRegister /\ [][NextRegister]_vars

\* C28: updates running together that set votersStatus to registered on
\* residents stored as not registered: once all have answered, totalVoters
\* has gone up by exactly 1 for each resident so updated.
RegisterCountsOnce ==
  Quiescent =>
    Counter(stats, "totalVoters") = Cardinality({u[1] : u \in updated})

\* ------------------------------------------------------------- C29
\* C29: with requests run one after another, a PUT /residents/:id that
\* names votersStatus, for an id in the set 'residents', answers 200, has
\* written the fields it names and has changed totalVoters by the
\* transition rule, a missing stored status counting as not registered.
UpdateOfStatusSucceeds ==
  (last.op = "update" /\ last.pc # "sIsMember"
     /\ "votersStatus" \in DOMAIN last.body) =>
    /\ last.status = 200
    /\ \A f \in DOMAIN last.body : Prop(hash[last.id], f) = last.body[f]
    /\ Counter(last.delta, "totalVoters")
         = TransitionDelta(last.body, last.snap)

\* ------------------------------------------------------------- C30
\* C30: with requests run one after another, what /analytics/stats answers
\* agrees with what /analytics/residents answers on the same store:
\* population.total = totalResidents and voters.voters = votersCount.
EndpointsAgree ==
  /\ (last.op = "analyticsStats" /\ last.status = 200) =>
       /\ last.data.population.total
            = RecordsOnlyDash(members, hash).totalResidents
       /\ last.data.voters.voters = RecordsOnlyDash(members, hash).votersCount
  /\ (last.op = "analyticsResidents" /\ last.status = 200) =>
       /\ last.data.totalResidents = RecordsOnlyStats(hash).population.total
       /\ last.data.votersCount = RecordsOnlyStats(hash).voters.voters

====
